---- MODULE Spec2Model ----
(***************************************************************************)
(* Model of the BaseMessage derivation (derive_base_message/src/           *)
(* derive_macro.rs) and of the declarative generator define_message!       *)
(* (src/define_message.rs).                                                *)
(*                                                                         *)
(* The generators are pure functions from a declaration to a code          *)
(* fragment.  A fragment is modelled as a sequence of items (impl blocks), *)
(* each a sequence of methods with structured bodies, and the emitted      *)
(* constructors, setters and accessors are given their Rust meaning by a   *)
(* small evaluator, so that a message built and mutated by the generated   *)
(* code is part of the state.                                              *)
(*                                                                         *)
(* Rust strings (type names, run-time string values) are sequences of      *)
(* one-character strings; identifiers that are fixed in the templates      *)
(* (field, parameter and method names) are TLA+ strings.                   *)
(***************************************************************************)
EXTENDS Integers, Sequences, FiniteSets, TLC

VARIABLES
    input,     \* the TokenStream handed to derive_macro
    pc,        \* "input", "done" (derive_macro returned) or "panicked"
    out,       \* the fragment derive_macro returned
    ast,       \* derive_macro's declaration when it returned
    finished,  \* finished_impl as assembled before the dispatch on the role field
    injected,  \* the declaration local to derive_macro_with_role, after add_role_field
    alt,       \* the fragment define_message! expanded to
    msg,       \* the message the emitted code built and mutated
    built      \* the constructor call that built msg

vars == <<input, pc, out, ast, finished, injected, alt, msg, built>>

-----------------------------------------------------------------------------
(* Bounds and input domains *)

\* largest number of fields of an input declaration
MaxFields == 3

FieldNames == {"base", "role", "tag", "score"}

Message == <<"M", "e", "s", "s", "a", "g", "e">>

Stems == { <<>>, <<"X">> }

Tails == { <<>>, Message, <<"M", "e", "s", "s", "a", "g">>,
           <<"m", "e", "s", "s", "a", "g", "e">> }

TypeNames == ({ s \o t : s \in Stems, t \in Tails } \ { <<>> })
             \cup { Message \o Message }

\* run-time string values handed to the generated code
Strs == { <<"a">>, <<"b">> }

Contents == { <<"h", "i">> }

\* the values a constructor parameter of the given type is called with
ValuesOf(ty) == IF ty = "String" THEN Strs ELSE { <<"7">> }

FieldType(n) ==
    CASE n = "base" -> "BaseMessageFields"
      [] n = "score" -> "u32"
      [] OTHER -> "String"

DistinctSeqs(S, n) ==
    { q \in UNION { [1..k -> S] : k \in 0..n } :
        \A i, j \in DOMAIN q : i # j => q[i] # q[j] }

\* the field lists of a named-field record: distinct names (a Rust record
\* cannot declare a field twice), in any order
NamedFieldLists ==
    { [i \in DOMAIN q |-> [name |-> q[i], ty |-> FieldType(q[i])]] :
        q \in DistinctSeqs(FieldNames, MaxFields) }

NoFields == SubSeq(<<[name |-> "", ty |-> ""]>>, 1, 0)

\* the fields of a tuple-style record have no identifier
UnnamedFieldLists ==
    { NoFields \o <<[name |-> "", ty |-> "BaseMessageFields"]>>,
      NoFields \o <<[name |-> "", ty |-> "String"],
                    [name |-> "", ty |-> "BaseMessageFields"]>> }

\* syn::DeriveInput: data is struct / enum / union, a struct's fields are
\* named / unnamed / unit
Declarations ==
    [data : {"struct"}, style : {"named"}, ident : TypeNames,
     fields : NamedFieldLists]
    \cup [data : {"struct"}, style : {"unnamed"}, ident : TypeNames,
          fields : UnnamedFieldLists]
    \cup [data : {"struct"}, style : {"unit"}, ident : TypeNames,
          fields : {NoFields}]
    \cup [data : {"enum", "union"}, style : {"none"}, ident : TypeNames,
          fields : {NoFields}]

NoDecl == [data |-> "none", style |-> "none", ident |-> <<>>, fields |-> NoFields]

\* a TokenStream handed to a derivation: either the tokens of a declaration
\* or tokens that do not parse as one
TokenStreams ==
    [parses : {TRUE}, decl : Declarations]
    \cup [parses : {FALSE}, decl : {NoDecl}]

-----------------------------------------------------------------------------
(* The shape of emitted code *)

\* one initializer / call argument.  form:
\*   "shorthand"          `f`            the variable named field
\*   "to_string"          `f: a.to_string()`
\*   "var"                `a`            the variable named arg
\*   "lit_false"          `false`
\*   "variant"            `f: MessageType::K`
\*   "variant_to_string"  `f: MessageType::K.to_string()`
\*   "empty_map"          `f: std::collections::HashMap::new()`
\*   "none"               `f: None`
\*   "base_literal"       `base: BaseMessageFields { ... }` for kind K
Initializer(field, form, arg, kind) ==
    [field |-> field, form |-> form, arg |-> arg, kind |-> kind]

NoInits == SubSeq(<<Initializer("", "", "", <<>>)>>, 1, 0)

Param(name, ty) == [name |-> name, ty |-> ty]

NoParams == SubSeq(<<Param("", "")>>, 1, 0)

\* a method body.  op:
\*   "call_new_with_example"  Self::new_with_example(args)
\*   "struct_literal"         Self { args }
\*   "assign_base"            self.base.<target> = args[1]
\*   "ref_base"               &self.base.<target>
\*   "copy_base"              self.base.<target>
\*   "as_deref_base"          self.base.<target>.as_deref()
\*   "as_str_base"            self.base.<target>.as_str()
\*   "ref_self"               &self.<target>
\*   "as_str_ident"           <kind>.as_str()
Body(op, target, args, kind) ==
    [op |-> op, target |-> target, args |-> args, kind |-> kind]

Method(vis, name, recv, params, ret, body) ==
    [vis |-> vis, name |-> name, recv |-> recv, params |-> params,
     ret |-> ret, body |-> body]

NoMethods ==
    SubSeq(<<Method("", "", "", NoParams, "", Body("", "", NoInits, <<>>))>>, 1, 0)

\* an item of a fragment.  head: "impl" (inherent), "impl_trait",
\* "struct" (a type definition) or "compile_error" (an error diagnostic)
Item(head, trait, ident, methods) ==
    [head |-> head, trait |-> trait, ident |-> ident, methods |-> methods]

NoItems == SubSeq(<<Item("", "", <<>>, NoMethods)>>, 1, 0)

\* syn::Error::to_compile_error(): a fragment that is the diagnostic alone
to_compile_error(why) == <<Item("compile_error", why, <<>>, NoMethods)>>

-----------------------------------------------------------------------------
(* crate::fields and crate::methods *)

\* Ok(named fields) for a plain named-field record, Err otherwise
extract_fields(decl) ==
    IF decl.data = "struct" /\ decl.style = "named"
    THEN [ok |-> TRUE, named |-> decl.fields]
    ELSE [ok |-> FALSE, named |-> NoFields]

Excluding(named, excluded) ==
    SelectSeq(named, LAMBDA f : f.name \notin excluded)

\* `name: Type` for every field not excluded, in declaration order
field_args(named, excluded) ==
    LET kept == Excluding(named, excluded)
    IN  [i \in DOMAIN kept |-> Param(kept[i].name, kept[i].ty)]

\* `name` for every field not excluded, in declaration order
field_initializers(named, excluded) ==
    LET kept == Excluding(named, excluded)
    IN  [i \in DOMAIN kept |-> Initializer(kept[i].name, "shorthand", "", <<>>)]

implement_base_setters ==
    << Method("pub", "set_content", "mut", <<Param("new_content", "&str")>>, "",
              Body("assign_base", "content",
                   <<Initializer("content", "to_string", "new_content", <<>>)>>, <<>>)),
       Method("pub", "set_example", "mut", <<Param("example", "bool")>>, "",
              Body("assign_base", "example",
                   <<Initializer("example", "var", "example", <<>>)>>, <<>>)),
       Method("pub", "set_id", "mut", <<Param("id", "Option<String>")>>, "",
              Body("assign_base", "id",
                   <<Initializer("id", "var", "id", <<>>)>>, <<>>)),
       Method("pub", "set_name", "mut", <<Param("name", "Option<String>")>>, "",
              Body("assign_base", "name",
                   <<Initializer("name", "var", "name", <<>>)>>, <<>>)) >>

Getter(vis, name, ret, op, target) ==
    Method(vis, name, "ref", NoParams, ret, Body(op, target, NoInits, <<>>))

MapType == "&std::collections::HashMap<String, String>"

implement_base_getters ==
    << Getter("", "content", "&str", "ref_base", "content"),
       Getter("", "message_type", "MessageType", "copy_base", "message_type"),
       Getter("", "is_example", "bool", "copy_base", "example"),
       Getter("", "additional_kwargs", MapType, "ref_base", "additional_kwargs"),
       Getter("", "response_metadata", MapType, "ref_base", "response_metadata"),
       Getter("", "id", "Option<&str>", "as_deref_base", "id"),
       Getter("", "name", "Option<&str>", "as_deref_base", "name") >>

-----------------------------------------------------------------------------
(* derive_macro.rs *)

has_role_field(decl) ==
    LET r == extract_fields(decl)
    IN  IF r.ok THEN \E i \in DOMAIN r.named : r.named[i].name = "role"
        ELSE FALSE

add_role_field(decl) ==
    IF decl.data = "struct" /\ decl.style = "named"
    THEN [decl EXCEPT !.fields = Append(@, [name |-> "role", ty |-> "String"])]
    ELSE decl

\* str::strip_suffix: Some(prefix) or None, as a sequence of at most one string
strip_suffix(s, suffix) ==
    IF Len(s) >= Len(suffix)
       /\ SubSeq(s, Len(s) - Len(suffix) + 1, Len(s)) = suffix
    THEN <<SubSeq(s, 1, Len(s) - Len(suffix))>>
    ELSE <<>>

unwrap_or(opt, default) == IF opt = <<>> THEN default ELSE opt[1]

\* format_ident!("{}", s): proc_macro2::Ident::new panics on the empty string
format_ident(s) == [panicked |-> s = <<>>, ident |-> s]

extract_message_type_name(decl) ==
    LET struct_name_str == decl.ident
        message_type_str == unwrap_or(strip_suffix(struct_name_str, Message),
                                      struct_name_str)
    IN  format_ident(message_type_str)

BaseInitializer(kind) == Initializer("base", "base_literal", "", kind)

\* `Self::new_with_example(content, false)`: the fields are not forwarded
new_impl_content_only(args, inits) ==
    Method("pub", "new", "none", <<Param("content", "&str")>> \o args, "Self",
           Body("call_new_with_example", "",
                << Initializer("", "var", "content", <<>>),
                   Initializer("", "lit_false", "", <<>>) >>, <<>>))

\* pub fn new(content: &str #(,#field_args),*) -> Self {
\*     Self::new_with_example(content, false #(,#field_initializers),*) }
new_impl(args, inits) ==
    Method("pub", "new", "none", <<Param("content", "&str")>> \o args, "Self",
           Body("call_new_with_example", "",
                << Initializer("", "var", "content", <<>>),
                   Initializer("", "lit_false", "", <<>>) >> \o inits,
                <<>>))

\* the role initializer names the struct, not the resolved message type
push_role_unstripped(decl, inits, message_type_name) ==
    IF ~has_role_field(decl)
    THEN Append(inits, Initializer("role", "variant_to_string", "", decl.ident))
    ELSE inits

\* the role initializer is pushed whether or not a role field is declared
push_role_always(decl, inits, message_type_name) ==
    Append(inits, Initializer("role", "variant_to_string", "", message_type_name))

\* if !has_role_field(input) { field_initializers.push(
\*     quote! { role: MessageType::#message_type_name.to_string() }) }
push_role(decl, inits, message_type_name) ==
    IF ~has_role_field(decl)
    THEN Append(inits, Initializer("role", "variant_to_string", "", message_type_name))
    ELSE inits

\* pub fn new_with_example(content: &str, example: bool #(,#field_args),*) -> Self {
\*     Self { base: BaseMessageFields { .. } #(,#field_initializers),* } }
new_with_example_impl(args, inits, message_type_name) ==
    Method("pub", "new_with_example", "none",
           <<Param("content", "&str"), Param("example", "bool")>> \o args, "Self",
           Body("struct_literal", "",
                <<BaseInitializer(message_type_name)>> \o inits, <<>>))

implement_struct_new(decl) ==
    LET r == extract_fields(decl)
    IN  IF ~r.ok
        THEN [ok |-> FALSE, panicked |-> FALSE, code |-> NoMethods]
        ELSE
        LET args == field_args(r.named, {"base"})
            inits == field_initializers(r.named, {"base"})
            name == extract_message_type_name(decl)
        IN  IF name.panicked
            THEN [ok |-> FALSE, panicked |-> TRUE, code |-> NoMethods]
            ELSE [ok |-> TRUE, panicked |-> FALSE,
                  code |-> << new_impl(args, inits),
                              new_with_example_impl(
                                  args, push_role(decl, inits, name.ident),
                                  name.ident) >>]

\* the two role bodies are selected the wrong way round
implement_base_message_swapped(decl) ==
    LET role_impl ==
            IF ~has_role_field(decl)
            THEN Getter("", "role", "&str", "ref_self", "role")
            ELSE Getter("", "role", "&str", "as_str_base", "message_type")
    IN  Item("impl_trait", "BaseMessage", decl.ident,
             Append(implement_base_getters, role_impl))

implement_base_message(decl) ==
    LET role_impl ==
            IF has_role_field(decl)
            THEN Getter("", "role", "&str", "ref_self", "role")
            ELSE Getter("", "role", "&str", "as_str_base", "message_type")
    IN  Item("impl_trait", "BaseMessage", decl.ident,
             Append(implement_base_getters, role_impl))

\* the interface implementation is emitted first, the setters before the
\* constructors
FinishedImpl_reordered(struct_name, struct_new_impl, base_setters, base_message_impl) ==
    << base_message_impl,
       Item("impl", "", struct_name, base_setters \o struct_new_impl) >>

\* quote! { impl #struct_name { #struct_new_impl #base_setters } #base_message_impl }
FinishedImpl(struct_name, struct_new_impl, base_setters, base_message_impl) ==
    << Item("impl", "", struct_name, struct_new_impl \o base_setters),
       base_message_impl >>

\* quote! { #ast } and syn::parse2
quote_ast(decl) == [parses |-> TRUE, decl |-> decl]

parse2(tokens) ==
    IF tokens.parses THEN [ok |-> TRUE, ast |-> tokens.decl]
    ELSE [ok |-> FALSE, ast |-> NoDecl]

\* the fragment is generated again from the declaration with the role field added
derive_macro_with_role_regenerated(tokens, finished_impl) ==
    LET p == parse2(tokens)
        a == add_role_field(p.ast)
    IN  IF ~p.ok
        THEN [out |-> to_compile_error("parse"), ast |-> NoDecl]
        ELSE [out |-> FinishedImpl(a.ident, implement_struct_new(a).code,
                                   implement_base_setters, implement_base_message(a)),
              ast |-> a]

\* returns the fragment; `ast` is the local declaration after add_role_field
derive_macro_with_role(tokens, finished_impl) ==
    LET p == parse2(tokens)
    IN  IF ~p.ok
        THEN [out |-> to_compile_error("parse"), ast |-> NoDecl]
        ELSE [out |-> finished_impl, ast |-> add_role_field(p.ast)]

\* the result of one derivation: the returned fragment (or a panic), with the
\* driver's declaration, the fragment assembled before the dispatch on the
\* role field and the declaration local to derive_macro_with_role
Derivation(panicked, o, a, f, i) ==
    [panicked |-> panicked, out |-> o, ast |-> a, finished |-> f, injected |-> i]

derive_macro(tokens) ==
    LET p == parse2(tokens)
    IN  IF ~p.ok
        THEN Derivation(FALSE, to_compile_error("parse"), NoDecl, NoItems, NoDecl)
        ELSE
        LET a == p.ast
            sn == implement_struct_new(a)
        IN  IF sn.panicked THEN Derivation(TRUE, NoItems, a, NoItems, NoDecl)
            ELSE IF ~sn.ok
            THEN Derivation(FALSE, to_compile_error("shape"), a, NoItems, NoDecl)
            ELSE
            LET finished_impl ==
                    FinishedImpl(a.ident, sn.code, implement_base_setters,
                                 implement_base_message(a))
            IN  IF has_role_field(a)
                THEN LET w == derive_macro_with_role(quote_ast(a), finished_impl)
                     IN  Derivation(FALSE, w.out, a, finished_impl, w.ast)
                ELSE Derivation(FALSE, finished_impl, a, finished_impl, NoDecl)

-----------------------------------------------------------------------------
(* define_message.rs *)

\* paste's [<$message_type_enum Message>]
paste_Message(kind) == kind \o Message

define_message(kind) ==
    LET ty == paste_Message(kind)
    IN  << Item("struct", "", ty, NoMethods),
           Item("impl", "", ty,
                << Method("pub", "new", "none", <<Param("content", "&str")>>, "Self",
                          Body("call_new_with_example", "",
                               << Initializer("", "var", "content", <<>>),
                                  Initializer("", "lit_false", "", <<>>) >>, <<>>)),
                   Method("pub", "new_with_example", "none",
                          <<Param("content", "&str"), Param("example", "bool")>>,
                          "Self",
                          Body("struct_literal", "", <<BaseInitializer(kind)>>, <<>>)),
                   Getter("pub", "is_example", "bool", "copy_base", "example"),
                   Getter("pub", "additional_kwargs", MapType, "ref_base",
                          "additional_kwargs"),
                   Getter("pub", "response_metadata", MapType, "ref_base",
                          "response_metadata"),
                   Getter("pub", "id", "Option<&str>", "as_deref_base", "id"),
                   Getter("pub", "name", "Option<&str>", "as_deref_base", "name") >>
                \o implement_base_setters),
           Item("impl_trait", "BaseMessage", ty,
                << Getter("", "content", "&str", "ref_base", "content"),
                   Getter("", "message_type", "&MessageType", "ref_base",
                          "message_type"),
                   Method("", "role", "ref", NoParams, "&str",
                          Body("as_str_ident", "", NoInits, kind)),
                   Getter("", "is_example", "bool", "copy_base", "example"),
                   Getter("", "additional_kwargs", MapType, "ref_base",
                          "additional_kwargs"),
                   Getter("", "response_metadata", MapType, "ref_base",
                          "response_metadata"),
                   Getter("", "id", "Option<&str>", "as_deref_base", "id"),
                   Getter("", "name", "Option<&str>", "as_deref_base", "name") >>) >>

-----------------------------------------------------------------------------
(* The meaning of emitted code *)

\* Option<T>: None is <<>>, Some(v) is <<v>>
None == <<>>

Some(v) == <<v>>

Variant(kind) == [enum |-> "MessageType", variant |-> kind]

\* MessageType::as_str and its Display form name the variant
MessageType_as_str(v) == v.variant

MessageType_to_string(v) == v.variant

Binding(name, val) == [name |-> name, val |-> val]

Bound(env, name) == \E i \in DOMAIN env : env[i].name = name

Lookup(env, name) == env[CHOOSE i \in DOMAIN env : env[i].name = name].val

\* BaseMessageFields { content: content.to_string(), example,
\*   message_type: MessageType::K, additional_kwargs: HashMap::new(),
\*   response_metadata: HashMap::new(), id: None, name: None }
BaseLiteral(kind, env) ==
    [content |-> Lookup(env, "content"),
     example |-> Lookup(env, "example"),
     message_type |-> Variant(kind),
     additional_kwargs |-> {},
     response_metadata |-> {},
     id |-> None,
     name |-> None]

NoBase == [content |-> <<>>, example |-> FALSE, message_type |-> Variant(<<>>),
           additional_kwargs |-> {}, response_metadata |-> {},
           id |-> None, name |-> None]

NoFieldVals == SubSeq(<<Binding("", <<>>)>>, 1, 0)

\* status: "none" (nothing built), "ok", or "rejected" (the call does not
\* match the callee's parameter list)
NoMsg == [status |-> "none", base |-> NoBase, fields |-> NoFieldVals]

Rejected == [status |-> "rejected", base |-> NoBase, fields |-> NoFieldVals]

\* the value of an initializer or argument expression
EvalInit(a, env) ==
    CASE a.form = "shorthand" -> Lookup(env, a.field)
      [] a.form \in {"var", "to_string"} -> Lookup(env, a.arg)
      [] a.form = "lit_false" -> FALSE
      [] a.form = "variant_to_string" -> MessageType_to_string(Variant(a.kind))
      [] a.form = "none" -> None
      [] OTHER -> <<>>

IsMethod(frag, head, name) ==
    \E i \in DOMAIN frag :
        /\ frag[i].head = head
        /\ \E j \in DOMAIN frag[i].methods : frag[i].methods[j].name = name

FindMethod(frag, head, name) ==
    LET i == CHOOSE i \in DOMAIN frag :
                 /\ frag[i].head = head
                 /\ \E j \in DOMAIN frag[i].methods : frag[i].methods[j].name = name
        j == CHOOSE j \in DOMAIN frag[i].methods : frag[i].methods[j].name = name
    IN  frag[i].methods[j]

BindParams(params, vals) == [i \in DOMAIN params |-> Binding(params[i].name, vals[i])]

\* Self { base: BaseMessageFields { .. }, inits.. }
EvalStructLiteral(body, env) ==
    LET isBase(a) == a.form = "base_literal"
        bases == SelectSeq(body.args, isBase)
        others == SelectSeq(body.args, LAMBDA a : ~isBase(a))
    IN  [status |-> "ok",
         base |-> IF bases = <<>> THEN NoBase ELSE BaseLiteral(bases[1].kind, env),
         fields |-> [i \in DOMAIN others |->
                        Binding(others[i].field, EvalInit(others[i], env))]]

\* Self::new_with_example(vals)
InvokeNewWithExample(frag, vals) ==
    LET m == FindMethod(frag, "impl", "new_with_example")
    IN  IF Len(vals) # Len(m.params) THEN Rejected
        ELSE EvalStructLiteral(m.body, BindParams(m.params, vals))

\* Self::new(vals)
InvokeNew(frag, vals) ==
    LET m == FindMethod(frag, "impl", "new")
        env == BindParams(m.params, vals)
    IN  IF Len(vals) # Len(m.params) THEN Rejected
        ELSE InvokeNewWithExample(frag,
                 [i \in DOMAIN m.body.args |-> EvalInit(m.body.args[i], env)])

\* self.<setter>(val)
InvokeSetter(frag, name, m, val) ==
    LET s == FindMethod(frag, "impl", name)
        env == BindParams(s.params, <<val>>)
    IN  [m EXCEPT !.base =
            [@ EXCEPT ![s.body.target] = EvalInit(s.body.args[1], env)]]

FieldValue(fields, name) ==
    IF \E i \in DOMAIN fields : fields[i].name = name
    THEN fields[CHOOSE i \in DOMAIN fields : fields[i].name = name].val
    ELSE <<"?">>

\* self.role()
InvokeRole(frag, m) ==
    LET r == FindMethod(frag, "impl_trait", "role")
    IN  CASE r.body.op = "ref_self" -> FieldValue(m.fields, r.body.target)
          [] r.body.op = "as_str_base" -> MessageType_as_str(m.base[r.body.target])
          [] OTHER -> <<"?">>

-----------------------------------------------------------------------------
(* The state machine: one derivation, then calls of the emitted code *)

\* the arguments define_message! is invoked with: `MessageType::K` or `K`
Kinds == { <<"X">>, Message }

\* token sequences: <<MessageType, ::, K>> or <<K>>
MacroArgs ==
    { << <<"MessageType">>, <<"::">>, k >> : k \in Kinds } \cup { <<k>> : k \in Kinds }

\* the first arm strips the `MessageType::` path and re-invokes the macro
\* with the bare identifier, which the second arm expands
define_message_macro(tokens) ==
    IF Len(tokens) = 3 /\ tokens[1] = <<"MessageType">> /\ tokens[2] = <<"::">>
    THEN define_message(tokens[3])
    ELSE define_message(tokens[1])

Init ==
    /\ input \in TokenStreams
    /\ pc = "input"
    /\ out = NoItems
    /\ ast = NoDecl
    /\ finished = NoItems
    /\ injected = NoDecl
    /\ alt = NoItems
    /\ msg = NoMsg
    /\ built = [ctor |-> "none", vals |-> <<>>]

DeriveMacro ==
    /\ pc = "input"
    /\ LET d == derive_macro(input)
       IN  /\ pc' = IF d.panicked THEN "panicked" ELSE "done"
           /\ out' = d.out
           /\ ast' = d.ast
           /\ finished' = d.finished
           /\ injected' = d.injected
    /\ UNCHANGED <<input, alt, msg, built>>

\* the emitted code exists once the derivation returned an implementation
Emitted == pc = "done" /\ IsMethod(out, "impl", "new_with_example")

ExtraParams == SubSeq(FindMethod(out, "impl", "new").params, 2,
                      Len(FindMethod(out, "impl", "new").params))

ExtraValues ==
    { e \in [DOMAIN ExtraParams -> Strs \cup ValuesOf("u32")] :
        \A i \in DOMAIN e : e[i] \in ValuesOf(ExtraParams[i].ty) }

CallNew ==
    /\ Emitted
    /\ \E content \in Contents, extra \in ExtraValues :
         /\ msg' = InvokeNew(out, <<content>> \o extra)
         /\ built' = [ctor |-> "new", vals |-> <<content, FALSE>> \o extra]
    /\ UNCHANGED <<input, pc, out, ast, finished, injected, alt>>

CallNewWithExample ==
    /\ Emitted
    /\ \E content \in Contents, example \in BOOLEAN, extra \in ExtraValues :
         /\ msg' = InvokeNewWithExample(out, <<content, example>> \o extra)
         /\ built' = [ctor |-> "new_with_example",
                      vals |-> <<content, example>> \o extra]
    /\ UNCHANGED <<input, pc, out, ast, finished, injected, alt>>

CallSetter(name, val) ==
    /\ Emitted
    /\ msg.status = "ok"
    /\ msg' = InvokeSetter(out, name, msg, val)
    /\ UNCHANGED <<input, pc, out, ast, finished, injected, alt, built>>

CallSetContent == \E v \in Contents \cup { <<"y", "o">> } : CallSetter("set_content", v)

CallSetExample == \E v \in BOOLEAN : CallSetter("set_example", v)

CallSetId == \E v \in {None} \cup {Some(x) : x \in {<<"i">>}} : CallSetter("set_id", v)

CallSetName == \E v \in {None} \cup {Some(x) : x \in {<<"n">>}} : CallSetter("set_name", v)

Next ==
    \/ DeriveMacro
    \/ CallNew
    \/ CallNewWithExample
    \/ CallSetContent
    \/ CallSetExample
    \/ CallSetId
    \/ CallSetName

Spec == Init /\ [][Next]_vars

DefineMessage ==
    /\ alt = NoItems
    /\ \E arg \in MacroArgs : alt' = define_message_macro(arg)
    /\ UNCHANGED <<input, pc, out, ast, finished, injected, msg, built>>

\* the generators alone: a derivation and an expansion of define_message!
NextGen ==
    \/ DeriveMacro
    \/ DefineMessage

SpecGen == Init /\ [][NextGen]_vars

-----------------------------------------------------------------------------
(* Vocabulary of the properties *)

decl == input.decl

PlainNamed == input.parses /\ decl.data = "struct" /\ decl.style = "named"

Declares(name) == PlainNamed /\ \E i \in DOMAIN decl.fields : decl.fields[i].name = name

\* the declared fields in order, minus "base"
ExtraFields == SelectSeq(decl.fields, LAMBDA f : f.name # "base")

EndsWith(s, suffix) == \E k \in 0..Len(s) : SubSeq(s, 1, k) \o suffix = s

\* the type name with one trailing "Message" removed, else the name
CategoryOf(s) ==
    IF EndsWith(s, Message)
    THEN SubSeq(s, 1, CHOOSE k \in 0..Len(s) : SubSeq(s, 1, k) \o Message = s)
    ELSE s

New == FindMethod(out, "impl", "new")

NewWithExample == FindMethod(out, "impl", "new_with_example")

Count(q, P(_)) == Len(SelectSeq(q, P))

Names(q) == [i \in DOMAIN q |-> q[i].name]

-----------------------------------------------------------------------------
(* Properties *)

RoleIndex == CHOOSE i \in DOMAIN NewWithExample.params :
                 NewWithExample.params[i].name = "role"

\* C1: the emitted role accessor returns the declared role field's value
\* (the value the constructor was called with) when the declaration has a
\* field named "role", and otherwise the string form of the category (the
\* type name with a trailing "Message" removed); for a message built by
\* either constructor, and after any sequence of the emitted setters.
C1_RoleAccessor ==
    (Emitted /\ msg.status = "ok") =>
        InvokeRole(out, msg) =
            IF Declares("role") THEN built.vals[RoleIndex]
            ELSE CategoryOf(decl.ident)

C1_Witness ==
    /\ Emitted
    /\ msg.status = "ok"
    /\ Declares("role")
    /\ Declares("tag")
    /\ built.ctor = "new"
    /\ msg.base.id # None
    /\ msg.base.name # None
    /\ msg.base.example
    /\ msg.base.content = <<"y", "o">>
    /\ InvokeRole(out, msg) = <<"b">>

\* C2: new(content, f1..fn) builds the record new_with_example(content,
\* false, f1..fn) builds: its body is the call of new_with_example with
\* content, false and the extra fields (the declared fields except "base")
\* in declaration order and nothing else, also without a role field.
C2_NewDelegates ==
    Emitted =>
        /\ New.body.op = "call_new_with_example"
        /\ New.body.args =
               << Initializer("", "var", "content", <<>>),
                  Initializer("", "lit_false", "", <<>>) >>
               \o [i \in DOMAIN ExtraFields |->
                      Initializer(ExtraFields[i].name, "shorthand", "", <<>>)]
        /\ \A content \in Contents, extra \in ExtraValues :
              /\ InvokeNew(out, <<content>> \o extra).status = "ok"
              /\ InvokeNew(out, <<content>> \o extra) =
                     InvokeNewWithExample(out, <<content, FALSE>> \o extra)
        /\ built.ctor = "new" =>
              \E m \in {InvokeNewWithExample(out, built.vals)} :
                  /\ m.status = "ok"
                  /\ msg.fields = m.fields
                  /\ msg.base.message_type = m.base.message_type

C2_Witness ==
    /\ Emitted
    /\ ~Declares("role")
    /\ Declares("base")
    /\ Len(ExtraFields) = 2
    /\ built.ctor = "new"
    /\ msg.status = "ok"
    /\ ~msg.base.example

LiteralInits == NewWithExample.body.args

IsSynthetic(a) == a.form = "variant_to_string"

InitializesRole(a) == a.field = "role"

EmptyEnv == SubSeq(<<Binding("", <<>>)>>, 1, 0)

CallEnv == << Binding("content", <<"h", "i">>), Binding("example", FALSE) >>

\* C3: without a "role" field the literal of new_with_example has one
\* synthetic role initializer, whose value is the string form of the kind
\* stored in base.message_type; with a "role" field there is no synthetic
\* initializer and the role parameter is the only role initializer.
C3_RoleInitializer ==
    (pc = "done" /\ PlainNamed) =>
        IF ~Declares("role")
        THEN /\ Count(LiteralInits, IsSynthetic) = 1
             /\ Count(LiteralInits, InitializesRole) = 1
             /\ \A i \in DOMAIN LiteralInits :
                   IsSynthetic(LiteralInits[i]) =>
                     /\ InitializesRole(LiteralInits[i])
                     /\ LiteralInits[1].form = "base_literal"
                     /\ EvalInit(LiteralInits[i], EmptyEnv) =
                            MessageType_to_string(
                                BaseLiteral(LiteralInits[1].kind, CallEnv).message_type)
        ELSE /\ Count(LiteralInits, IsSynthetic) = 0
             /\ SelectSeq(LiteralInits, InitializesRole) =
                    <<Initializer("role", "shorthand", "", <<>>)>>
             /\ Count(NewWithExample.params, LAMBDA q : q.name = "role") = 1

C3_Witness ==
    /\ pc = "done"
    /\ PlainNamed
    /\ ~Declares("role")
    /\ Declares("tag")
    /\ decl.ident = <<"X">> \o Message
    /\ Count(LiteralInits, IsSynthetic) = 1

\* C4: with extra fields [f1..fn] (the declared fields minus "base"), the
\* parameters of new after content, and of new_with_example after content
\* and example, are [f1..fn] in order; the literal starts with the base
\* initializer, followed by the initializers of [f1..fn] in order, and any
\* initializer after them is the synthetic one; a declared "role" occurs
\* once among the parameters and once among the initializers.
C4_FieldOrder ==
    (pc = "done" /\ PlainNamed) =>
        LET n == Len(ExtraFields)
            want == [i \in DOMAIN ExtraFields |->
                        Param(ExtraFields[i].name, ExtraFields[i].ty)]
        IN  /\ New.params = <<Param("content", "&str")>> \o want
            /\ NewWithExample.params =
                   <<Param("content", "&str"), Param("example", "bool")>> \o want
            /\ Len(LiteralInits) >= n + 1
            /\ LiteralInits[1].form = "base_literal"
            /\ LiteralInits[1].field = "base"
            /\ SubSeq(LiteralInits, 2, n + 1) =
                   [i \in DOMAIN ExtraFields |->
                       Initializer(ExtraFields[i].name, "shorthand", "", <<>>)]
            /\ \A i \in DOMAIN LiteralInits : i > n + 1 => IsSynthetic(LiteralInits[i])
            /\ Declares("role") =>
                  /\ Count(NewWithExample.params, LAMBDA q : q.name = "role") = 1
                  /\ Count(New.params, LAMBDA q : q.name = "role") = 1
                  /\ Count(LiteralInits, InitializesRole) = 1

C4_Witness ==
    /\ pc = "done"
    /\ PlainNamed
    /\ Names(decl.fields) = <<"tag", "base", "role">>
    /\ Names(NewWithExample.params) = <<"content", "example", "tag", "role">>

IsDiagnostic(frag) == Len(frag) = 1 /\ frag[1].head = "compile_error"

HasAll(frag) ==
    /\ \A i \in DOMAIN frag : frag[i].head # "compile_error"
    /\ \A n \in {"new", "new_with_example", "set_content", "set_example",
                 "set_id", "set_name"} : IsMethod(frag, "impl", n)
    /\ \A n \in {"content", "message_type", "is_example", "additional_kwargs",
                 "response_metadata", "id", "name", "role"} :
           IsMethod(frag, "impl_trait", n)

HasAny(frag) == \E i \in DOMAIN frag : frag[i].head # "compile_error"

\* C5: generation is all-or-nothing: an input that is not a plain
\* named-field record, or does not parse, yields the diagnostic alone; a
\* plain named-field record yields the complete fragment and no error.
C5_AllOrNothing ==
    pc # "input" =>
        IF PlainNamed THEN pc = "done" /\ HasAll(out)
        ELSE pc = "done" /\ IsDiagnostic(out) /\ ~HasAny(out)

\* the kind the emitted constructor stores in base.message_type
EmittedKind == LiteralInits[1].kind

\* C6: the category resolver is total on type names: the name with one
\* trailing "Message" removed if it ends with it, else the name unchanged.
C6_ResolverTotal ==
    (pc # "input" /\ PlainNamed) =>
        /\ pc # "panicked"
        /\ ~extract_message_type_name(decl).panicked
        /\ EmittedKind = CategoryOf(decl.ident)

InherentMethods(frag, names) ==
    LET i == CHOOSE i \in DOMAIN frag : frag[i].head = "impl"
    IN  SelectSeq(frag[i].methods, LAMBDA m : m.name \in names)

InterfaceMethods(frag) ==
    LET i == CHOOSE i \in DOMAIN frag : frag[i].head = "impl_trait"
    IN  { frag[i].methods[j] : j \in DOMAIN frag[i].methods }

AltIdent == alt[1].ident

\* C7: what define_message!(K) expands to is structurally what the
\* derivation emits for `KMessage { base }`: the same constructors with the
\* same initializers, the same setters, the same interface methods with the
\* same signatures and bodies.
C7_AlternativeEquivalent ==
    (pc = "done" /\ alt # NoItems /\ PlainNamed
     /\ Names(decl.fields) = <<"base">> /\ decl.ident = AltIdent) =>
        /\ InherentMethods(alt, {"new", "new_with_example"}) =
               InherentMethods(out, {"new", "new_with_example"})
        /\ InherentMethods(alt, {"set_content", "set_example", "set_id", "set_name"}) =
               InherentMethods(out, {"set_content", "set_example", "set_id", "set_name"})
        /\ InterfaceMethods(alt) = InterfaceMethods(out)

\* C8: for a declaration with a "role" field the driver returns the
\* fragment assembled before derive_macro_with_role was called, and its own
\* declaration is unchanged: the role field is added to a copy only, and no
\* second role parameter or initializer appears in the output.
C8_InjectionInert ==
    (pc = "done" /\ Declares("role")) =>
        /\ out = finished
        /\ HasAll(out)
        /\ ast = decl
        /\ Count(NewWithExample.params, LAMBDA q : q.name = "role") = 1
        /\ Count(New.params, LAMBDA q : q.name = "role") = 1
        /\ Count(LiteralInits, InitializesRole) = 1

C8_Witness ==
    /\ pc = "done"
    /\ Declares("role")
    /\ Declares("base")
    /\ Count(injected.fields, LAMBDA f : f.name = "role") = 2
    /\ Count(ast.fields, LAMBDA f : f.name = "role") = 1

\* C9: a derived fragment lists the constructors new, new_with_example,
\* then the setters, then the interface implementation, whether or not a
\* role field is declared.
C9_FixedOrder ==
    (pc = "done" /\ PlainNamed) =>
        /\ Len(out) = 2
        /\ out[1].head = "impl"
        /\ out[1].ident = decl.ident
        /\ Names(out[1].methods) =
               <<"new", "new_with_example",
                 "set_content", "set_example", "set_id", "set_name">>
        /\ out[2].head = "impl_trait"
        /\ out[2].trait = "BaseMessage"
        /\ out[2].ident = decl.ident

C9_Witness ==
    /\ pc = "done"
    /\ PlainNamed
    /\ ~Declares("role")
    /\ Len(out) = 2
    /\ out[2].head = "impl_trait"

\* C10: for a plain named-field declaration with a "base" field, the
\* literal of new_with_example initializes each declared field exactly once
\* and no field the declaration does not declare.
C10_LiteralMatchesDeclaration ==
    (pc = "done" /\ Declares("base")) =>
        /\ \A i \in DOMAIN decl.fields :
              Count(LiteralInits, LAMBDA a : a.field = decl.fields[i].name) = 1
        /\ \A i \in DOMAIN LiteralInits :
              \E j \in DOMAIN decl.fields :
                  decl.fields[j].name = LiteralInits[i].field

====
